---- MODULE Spec2Model ----
(***************************************************************************)
(* sosdb: a typed value codec (Value <-> "tag:payload" text) and a         *)
(* line-oriented object store (Database::save / Database::load).           *)
(*                                                                         *)
(* A text is a sequence of one-character strings; a file is the sequence   *)
(* of the lines that str::lines() yields for its contents.  All characters *)
(* of the model are ASCII, so a character index is a byte index.           *)
(***************************************************************************)
EXTENDS Integers, Sequences, FiniteSets, TLC

VARIABLES objects,   \* Database.objects: object name -> Object
          file,      \* the lines of the backing file at Database.path, or NoFile
          last,      \* the last Database operation: its kind, the map before it, its outcome
          saved,     \* <<m>> for the map m that save last rendered the file from, or NoMap
          val,       \* codec: the Value last encoded (NoValue when a text was chosen)
          txt,       \* codec: the text under the decoder
          dec        \* codec: the outcome of Value::try_from(txt) (Pending before it ran)

vars == <<objects, file, last, saved, val, txt, dec>>

(***************************************************************************)
(* Bounds of the model.                                                    *)
(***************************************************************************)
MaxPayloadLen == 3   \* length of the enumerated payloads of the codec
MaxInt == 12         \* the enumerated Value::Int are -MaxInt..MaxInt and the i32 extremes
MaxMant == 12        \* decimal mantissa of the enumerated finite Value::Float
MaxFrac == 2         \* fractional digits of the enumerated finite Value::Float
MaxLines == 4        \* number of lines after the header line in an initial backing file

I32Max == 2147483647     \* i32::MAX
F32Digits == 6           \* decimal digits that every f32 keeps exactly (f32::DIGITS)
I32Min == -I32Max - 1    \* i32::MIN

(***************************************************************************)
(* Texts.                                                                  *)
(***************************************************************************)
Digits == <<"0", "1", "2", "3", "4", "5", "6", "7", "8", "9">>

IsDigit(c) == \E i \in 1..10 : Digits[i] = c

DigitVal(c) == (CHOOSE i \in 1..10 : Digits[i] = c) - 1

\* str::to_ascii_lowercase on the letters that the float keywords use
Lower(c) ==
  CASE c = "I" -> "i"
    [] c = "N" -> "n"
    [] c = "F" -> "f"
    [] c = "A" -> "a"
    [] c = "T" -> "t"
    [] c = "Y" -> "y"
    [] OTHER -> c

LowerText(s) == [k \in 1..Len(s) |-> Lower(s[k])]

\* the index of the first occurrence of character c in s, 0 when there is none
IndexOf(s, c) ==
  IF \E k \in 1..Len(s) : s[k] = c
  THEN CHOOSE k \in 1..Len(s) : s[k] = c /\ \A j \in 1..(k - 1) : s[j] # c
  ELSE 0

Contains(s, c) == IndexOf(s, c) # 0

\* str::split_once(c), defined when s contains c: <<before, after>> the first c
split_once(s, c) ==
  LET k == IndexOf(s, c) IN <<SubSeq(s, 1, k - 1), SubSeq(s, k + 1, Len(s))>>

RECURSIVE Pow10(_)
Pow10(e) == IF e = 0 THEN 1 ELSE 10 * Pow10(e - 1)

\* the decimal digits of a natural number, without leading zeros
RECURSIVE NatToText(_)
NatToText(n) ==
  IF n < 10 THEN <<Digits[n + 1]>>
  ELSE NatToText(n \div 10) \o <<Digits[(n % 10) + 1]>>

\* a natural number as exactly w decimal digits (leading zeros kept)
RECURSIVE PadToText(_, _)
PadToText(n, w) ==
  IF w = 0 THEN <<>> ELSE PadToText(n \div 10, w - 1) \o <<Digits[(n % 10) + 1]>>

AllDigits(s) == \A k \in 1..Len(s) : IsDigit(s[k])

\* the number a digit string denotes (unbounded)
RECURSIVE DigitsToNat(_)
DigitsToNat(s) ==
  IF s = <<>> THEN 0
  ELSE 10 * DigitsToNat(SubSeq(s, 1, Len(s) - 1)) + DigitVal(s[Len(s)])

(***************************************************************************)
(* Value (lib.rs:15-21).  One record shape for the four variants, so that  *)
(* any two values can be compared; the fields a variant does not use hold  *)
(* fixed fillers.  A Float is NaN, an infinity, or the finite number       *)
(* (-1)^neg * m / 10^e written with its shortest decimal expansion (e > 0  *)
(* implies that m does not end in 0): Display for f32 prints exactly that  *)
(* expansion and distinct expansions of up to 6 significant digits are     *)
(* distinct f32 values.                                                    *)
(***************************************************************************)
NoFloat == [cls |-> "none", neg |-> FALSE, m |-> 0, e |-> 0]
NaN == [cls |-> "nan", neg |-> FALSE, m |-> 0, e |-> 0]
Inf(neg) == [cls |-> "inf", neg |-> neg, m |-> 0, e |-> 0]
Fin(neg, m, e) == [cls |-> "fin", neg |-> neg, m |-> m, e |-> e]

ValueStr(s) == [kind |-> "Str", s |-> s, i |-> 0, f |-> NoFloat, b |-> FALSE]
ValueInt(n) == [kind |-> "Int", s |-> <<>>, i |-> n, f |-> NoFloat, b |-> FALSE]
ValueFloat(x) == [kind |-> "Float", s |-> <<>>, i |-> 0, f |-> x, b |-> FALSE]
ValueBool(b) == [kind |-> "Bool", s |-> <<>>, i |-> 0, f |-> NoFloat, b |-> b]
NoValue == [kind |-> "none", s |-> <<>>, i |-> 0, f |-> NoFloat, b |-> FALSE]

\* f32 == f32: NaN equals nothing, the two zeros are equal
FloatEq(x, y) ==
  /\ x.cls # "nan"
  /\ y.cls # "nan"
  /\ x.cls = y.cls
  /\ \/ x.cls = "fin" /\ x.m = 0 /\ y.m = 0
     \/ x = y

\* #[derive(PartialEq)] for Value: same variant and equal payloads
ValueEq(v, w) ==
  /\ v.kind = w.kind
  /\ CASE v.kind = "Str" -> v.s = w.s
       [] v.kind = "Int" -> v.i = w.i
       [] v.kind = "Float" -> FloatEq(v.f, w.f)
       [] v.kind = "Bool" -> v.b = w.b
       [] OTHER -> FALSE

(***************************************************************************)
(* Display of the payloads.                                                *)
(***************************************************************************)
\* the decimal digits of |n| for n < 0, computed without negating n (|i32::MIN| is
\* no i32)
RECURSIVE NegToText(_)
NegToText(n) ==
  LET d == (10 - (n % 10)) % 10
      rest == (n + d) \div 10
  IN  (IF rest = 0 THEN <<>> ELSE NegToText(rest)) \o <<Digits[d + 1]>>

I32ToText(n) == IF n < 0 THEN <<"-">> \o NegToText(n) ELSE NatToText(n)

BoolToText(b) == IF b THEN <<"t", "r", "u", "e">> ELSE <<"f", "a", "l", "s", "e">>

\* faulty variant: the fraction printed without its leading zeros
F32ToTextUnpadded(x) ==
  CASE x.cls = "nan" -> <<"N", "a", "N">>
    [] x.cls = "inf" -> (IF x.neg THEN <<"-">> ELSE <<>>) \o <<"i", "n", "f">>
    [] OTHER ->
         (IF x.neg THEN <<"-">> ELSE <<>>)
           \o NatToText(x.m \div Pow10(x.e))
           \o (IF x.e = 0 THEN <<>> ELSE <<".">> \o NatToText(x.m % Pow10(x.e)))

F32ToText(x) ==
  CASE x.cls = "nan" -> <<"N", "a", "N">>
    [] x.cls = "inf" -> (IF x.neg THEN <<"-">> ELSE <<>>) \o <<"i", "n", "f">>
    [] OTHER ->
         (IF x.neg THEN <<"-">> ELSE <<>>)
           \o NatToText(x.m \div Pow10(x.e))
           \o (IF x.e = 0 THEN <<>> ELSE <<".">> \o PadToText(x.m % Pow10(x.e), x.e))

\* impl Display for Value
to_string(v) ==
  CASE v.kind = "Str" -> <<"s", ":">> \o v.s
    [] v.kind = "Int" -> <<"i", ":">> \o I32ToText(v.i)
    [] v.kind = "Float" -> <<"f", ":">> \o F32ToText(v.f)
    [] OTHER -> <<"b", ":">> \o BoolToText(v.b)

(***************************************************************************)
(* str::parse of the payloads.  A parse result is [ok, v].                 *)
(***************************************************************************)
\* <i32 as FromStr>: an optional sign, then one or more digits, accumulated
\* with checked arithmetic (an overflow is an error)
RECURSIVE AccI32(_, _, _)
AccI32(s, neg, acc) ==
  IF s = <<>> THEN [ok |-> TRUE, v |-> acc]
  ELSE IF ~IsDigit(s[1]) THEN [ok |-> FALSE, v |-> 0]
  ELSE LET d == DigitVal(s[1])
           \* checked_mul(10) then checked_add(d) / checked_sub(d)
           fits == IF neg THEN acc >= (I32Min + d + 9) \div 10
                          ELSE acc <= (I32Max - d) \div 10
       IN  IF ~fits THEN [ok |-> FALSE, v |-> 0]
           ELSE AccI32(Tail(s), neg, IF neg THEN 10 * acc - d ELSE 10 * acc + d)

ParseI32(s) ==
  IF s = <<>> THEN [ok |-> FALSE, v |-> 0]
  ELSE IF s[1] \in {"+", "-"}
       THEN IF Len(s) = 1 THEN [ok |-> FALSE, v |-> 0]
            ELSE AccI32(Tail(s), s[1] = "-", 0)
       ELSE AccI32(s, FALSE, 0)

\* <bool as FromStr>: exactly "true" or "false"
ParseBool(s) ==
  IF s = <<"t", "r", "u", "e">> THEN [ok |-> TRUE, v |-> TRUE]
  ELSE IF s = <<"f", "a", "l", "s", "e">> THEN [ok |-> TRUE, v |-> FALSE]
  ELSE [ok |-> FALSE, v |-> FALSE]

\* the finite float m / 10^e in its shortest expansion
RECURSIVE Normal(_, _, _)
Normal(neg, m, e) ==
  IF e > 0 /\ m % 10 = 0 THEN Normal(neg, m \div 10, e - 1) ELSE Fin(neg, m, e)

\* <f32 as FromStr> on texts without an exponent part: an optional sign, then
\* "inf", "infinity" or "nan" in any case, or digits with at most one '.'
\* and at least one digit
ParseF32(s) ==
  LET signed == s # <<>> /\ s[1] \in {"+", "-"}
      neg == signed /\ s[1] = "-"
      body == IF signed THEN Tail(s) ELSE s
      low == LowerText(body)
      dot == IndexOf(body, ".")
      ip == IF dot = 0 THEN body ELSE SubSeq(body, 1, dot - 1)
      fp == IF dot = 0 THEN <<>> ELSE SubSeq(body, dot + 1, Len(body))
  IN  IF low = <<"n", "a", "n">> THEN [ok |-> TRUE, v |-> NaN]
      ELSE IF low \in {<<"i", "n", "f">>, <<"i", "n", "f", "i", "n", "i", "t", "y">>}
      THEN [ok |-> TRUE, v |-> Inf(neg)]
      ELSE IF AllDigits(ip) /\ AllDigits(fp) /\ Len(ip) + Len(fp) > 0
      THEN [ok |-> TRUE, v |-> Normal(neg, DigitsToNat(ip \o fp), Len(fp))]
      ELSE [ok |-> FALSE, v |-> NoFloat]

(***************************************************************************)
(* impl TryFrom<&str> for Value.  The outcome is Ok(value), Err(error) or  *)
(* a panic (the assert_eq! on the separator).                              *)
(***************************************************************************)
Ok(v) == [tag |-> "Ok", value |-> v, err |-> "none"]
Err(e) == [tag |-> "Err", value |-> NoValue, err |-> e]
Panic == [tag |-> "Panic", value |-> NoValue, err |-> "none"]
Pending == [tag |-> "Pending", value |-> NoValue, err |-> "none"]

\* the dispatch on the type tag, after the separator check
Dispatch(type_hint, value_str) ==
  CASE type_hint = "s" -> Ok(ValueStr(value_str))
    [] type_hint = "i" ->
         LET r == ParseI32(value_str)
         IN  IF r.ok THEN Ok(ValueInt(r.v)) ELSE Err("InvalidValue")
    [] type_hint = "f" ->
         LET r == ParseF32(value_str)
         IN  IF r.ok THEN Ok(ValueFloat(r.v)) ELSE Err("InvalidValue")
    [] type_hint = "b" ->
         LET r == ParseBool(value_str)
         IN  IF r.ok THEN Ok(ValueBool(r.v)) ELSE Err("InvalidValue")
    [] OTHER -> Err("InvalidType")

\* faulty variant: the separator check returns an error instead of asserting
TryFromNoAssert(str) ==
  IF str = <<>> THEN Err("ValueIsEmpty")
  ELSE IF Len(str) = 1 \/ str[2] # ":" THEN Err("InvalidValue")
  ELSE Dispatch(str[1], SubSeq(str, 3, Len(str)))

\* faulty variant: the payload loses its leading blanks before the dispatch
RECURSIVE TrimStart(_)
TrimStart(s) == IF s # <<>> /\ s[1] = " " THEN TrimStart(Tail(s)) ELSE s

TryFromTrimmed(str) ==
  IF str = <<>> THEN Err("ValueIsEmpty")
  ELSE IF Len(str) = 1 THEN Err("InvalidValue")
  ELSE IF str[2] # ":" THEN Panic
  ELSE Dispatch(str[1], TrimStart(SubSeq(str, 3, Len(str))))

\* faulty variant: an unknown tag is reported only after its payload failed to parse as an
\* integer
TryFromTagLast(str) ==
  IF str = <<>> THEN Err("ValueIsEmpty")
  ELSE IF Len(str) = 1 THEN Err("InvalidValue")
  ELSE IF str[2] # ":" THEN Panic
  ELSE IF str[1] \in {"s", "i", "f", "b"} THEN Dispatch(str[1], SubSeq(str, 3, Len(str)))
  ELSE IF ParseI32(SubSeq(str, 3, Len(str))).ok THEN Err("InvalidType")
  ELSE Err("InvalidValue")

TryFrom(str) ==
  IF str = <<>> THEN Err("ValueIsEmpty")                      \* chars.next().ok_or(ValueIsEmpty)?
  ELSE IF Len(str) = 1 THEN Err("InvalidValue")               \* chars.next().ok_or(InvalidValue)?
  ELSE IF str[2] # ":" THEN Panic                             \* assert_eq!(':', ..)
  ELSE LET type_hint == str[1]
           value_str == SubSeq(str, 3, Len(str))                \* chars.collect()
       IN  Dispatch(type_hint, value_str)

(***************************************************************************)
(* The database part of the state while only the codec runs, and the       *)
(* codec part while only the database runs.                                *)
(***************************************************************************)
EmptyMap == <<>>
NoFile == "NoFile"
NoMap == <<>>
NoText == "NoText"
NoOp == [op |-> "none", res |-> "none"]

DbIdle == objects = EmptyMap /\ file = NoFile /\ last = NoOp /\ saved = NoMap
CodecIdle == val = NoValue /\ txt = NoText /\ dec = Pending

(***************************************************************************)
(* The codec on its own: the decoder applied to a caller's text, and to    *)
(* the text the encoder produces for a caller's value.                     *)
(***************************************************************************)
RECURSIVE TextsUpTo(_, _)
TextsUpTo(chars, n) ==
  IF n = 0 THEN {<<>>}
  ELSE LET shorter == TextsUpTo(chars, n - 1)
       IN  shorter \cup {Append(t, c) : t \in shorter, c \in chars}

PayloadChars == {"0", "1", "9", "-", "+", ".", "a"}
TagChars == {"s", "i", "f", "b", "x", ":"}
SepChars == {":", "=", "1"}

ExtraPayloads ==
  { <<"t", "r", "u", "e">>, <<"f", "a", "l", "s", "e">>, <<"T", "r", "u", "e">>,
    <<"m", "a", "y", "b", "e">>, <<"a", "b", "c">>, <<" ", "4", "2">>,
    <<"h", "e", "l", "l", "o", " ", "w", "o", "r", "l", "d">>,
    <<"2", "1", "4", "7", "4", "8", "3", "6", "4", "7">>,
    <<"2", "1", "4", "7", "4", "8", "3", "6", "4", "8">>,
    <<"+", "2", "1", "4", "7", "4", "8", "3", "6", "4", "7">>,
    <<"-", "2", "1", "4", "7", "4", "8", "3", "6", "4", "8">>,
    <<"-", "2", "1", "4", "7", "4", "8", "3", "6", "4", "9">>,
    <<"0", "0", "2", "1", "4", "7", "4", "8", "3", "6", "4", "7">>,
    <<"9", "9", "9", "9", "9", "9", "9", "9", "9", "9", "9">>,
    <<"i", "n", "f">>, <<"-", "i", "n", "f">>, <<"N", "a", "N">>,
    <<"i", "n", "f", "i", "n", "i", "t", "y">> }

Payloads == TextsUpTo(PayloadChars, MaxPayloadLen) \cup ExtraPayloads

\* a float payload stays within the digits for which the decimal model of f32 is exact
NumDigits(s) == Cardinality({k \in 1..Len(s) : IsDigit(s[k])})

Texts ==
  {<<>>} \cup {<<t>> : t \in TagChars}
         \cup {<<t, c>> \o p : t \in TagChars \ {"f"}, c \in SepChars, p \in Payloads}
         \cup {<<"f", c>> \o p :
                  c \in SepChars, p \in {q \in Payloads : NumDigits(q) <= F32Digits}}

StrChars == {"a", " ", ":", "=", "\n"}

Floats ==
  {NaN, Inf(FALSE), Inf(TRUE)}
    \cup {Normal(neg, m, e) : neg \in BOOLEAN, m \in 0..MaxMant, e \in 0..MaxFrac}

Values ==
  {ValueStr(s) : s \in TextsUpTo(StrChars, MaxPayloadLen)}
    \cup {ValueInt(n) : n \in (-MaxInt..MaxInt) \cup {I32Min, I32Max, 42, 100}}
    \cup {ValueFloat(x) : x \in Floats}
    \cup {ValueBool(b) : b \in BOOLEAN}

\* the caller holds either a text to decode or a value to encode
InitCodec ==
  /\ DbIdle
  /\ dec = Pending
  /\ \/ val = NoValue /\ txt \in Texts
     \/ val \in Values /\ txt = NoText

\* val.to_string()
Encode ==
  /\ val # NoValue
  /\ txt = NoText
  /\ txt' = to_string(val)
  /\ UNCHANGED <<objects, file, last, saved, val, dec>>

\* Value::try_from(txt)
Decode ==
  /\ txt # NoText
  /\ dec = Pending
  /\ dec' = TryFrom(txt)
  /\ UNCHANGED <<objects, file, last, saved, val, txt>>

NextCodec == Encode \/ Decode

SpecCodec == InitCodec /\ [][NextCodec]_vars

(***************************************************************************)
(* Object (lib.rs:71-105): a name and a map from field name to Value.      *)
(***************************************************************************)
NoObject == [name |-> "NoObject", values |-> EmptyMap]

Without(map, key) == [k \in DOMAIN map \ {key} |-> map[k]]

ObjectNew(name) == [name |-> name, values |-> EmptyMap]

\* Option<&Value>: NoValue stands for None
get(object, name) ==
  IF name \in DOMAIN object.values THEN object.values[name] ELSE NoValue

add(object, name, value) ==
  [object EXCEPT !.values = (name :> value) @@ object.values]

delete(object, name) == [object EXCEPT !.values = Without(object.values, name)]

with_value(object, name, value) == add(object, name, value)

\* the enumerations of a finite set: the orders a HashMap may iterate in
Orders(S) ==
  {p \in [1..Cardinality(S) -> S] : \A a, b \in 1..Cardinality(S) : p[a] = p[b] => a = b}

\* impl Display for Object, with its fields taken in the order `order`
ObjectLines(object, order) ==
  <<<<"o", "b", "j", "e", "c", "t", "=">> \o object.name>>
    \o [k \in 1..Len(order) |->
          <<" ", " ">> \o order[k] \o <<"=">> \o to_string(object.values[order[k]])]

(***************************************************************************)
(* Database (lib.rs:113-178).                                              *)
(***************************************************************************)
\* faulty variant: an insertion under a name already present keeps the fields that the new
\* object does not set
add_object_merging(objs, object) ==
  IF object.name \in DOMAIN objs
  THEN (object.name :> [object EXCEPT !.values = object.values @@ objs[object.name].values])
         @@ objs
  ELSE (object.name :> object) @@ objs

add_object(objs, object) == (object.name :> object) @@ objs

remove_object(objs, name) == Without(objs, name)

\* Option<&Object>: NoObject stands for None
get_object(objs, name) == IF name \in DOMAIN objs THEN objs[name] ELSE NoObject

\* impl Display for Database: the header line, then every object's lines and the
\* empty line that writeln!(f, "{obj}") adds after them
RECURSIVE DatabaseLines(_, _, _)
DatabaseLines(objs, order, fieldOrder) ==
  IF order = <<>> THEN <<>>
  ELSE ObjectLines(objs[order[1]], fieldOrder[order[1]]) \o <<<<>>>>
         \o DatabaseLines(objs, Tail(order), fieldOrder)

Renderings(objs) ==
  { <<<<"s", "o", "s", "d", "b">>>> \o DatabaseLines(objs, order, fieldOrder) :
      order \in Orders(DOMAIN objs),
      fieldOrder \in
        { fo \in [DOMAIN objs -> UNION {Orders(DOMAIN objs[n].values) : n \in DOMAIN objs}] :
            \A n \in DOMAIN objs : fo[n] \in Orders(DOMAIN objs[n].values) } }

(***************************************************************************)
(* Database::load.  The outcome is Ok, ValueError(err), IO or a panic (the *)
(* slice [2..] of a line shorter than two bytes, or the decoder's          *)
(* assertion), together with the map as the call left it.                  *)
(***************************************************************************)
Outcome(res, err, objs) == [res |-> res, err |-> err, objects |-> objs]

TextEnd == <<"e", "n", "d">>

RECURSIVE load_lines(_, _, _)
RECURSIVE load_block(_, _, _, _)

\* faulty variant: a decode error still inserts the object assembled so far
load_block_commits_partial(lines, j, object, objs) ==
  IF j > Len(lines) THEN load_lines(lines, j, add_object(objs, object))
  ELSE IF lines[j] = TextEnd THEN load_lines(lines, j + 1, add_object(objs, object))
  ELSE IF Len(lines[j]) < 2 THEN Outcome("Panic", "none", objs)
  ELSE LET object_line == SubSeq(lines[j], 3, Len(lines[j]))
       IN  IF Contains(object_line, "=")
           THEN LET kv == split_once(object_line, "=")
                    r == TryFrom(kv[2])
                IN  CASE r.tag = "Ok" -> load_block(lines, j + 1, add(object, kv[1], r.value), objs)
                      [] r.tag = "Err" -> Outcome("ValueError", r.err, add_object(objs, object))
                      [] OTHER -> Outcome("Panic", "none", objs)
           ELSE load_block(lines, j + 1, object, objs)

\* faulty variant: an object whose block is not closed by `end` is dropped at the end of
\* the file
load_block_drops_unterminated(lines, j, object, objs) ==
  IF j > Len(lines) THEN load_lines(lines, j, objs)
  ELSE IF lines[j] = TextEnd THEN load_lines(lines, j + 1, add_object(objs, object))
  ELSE IF Len(lines[j]) < 2 THEN Outcome("Panic", "none", objs)
  ELSE LET object_line == SubSeq(lines[j], 3, Len(lines[j]))
       IN  IF Contains(object_line, "=")
           THEN LET kv == split_once(object_line, "=")
                    r == TryFrom(kv[2])
                IN  CASE r.tag = "Ok" -> load_block(lines, j + 1, add(object, kv[1], r.value), objs)
                      [] r.tag = "Err" -> Outcome("ValueError", r.err, objs)
                      [] OTHER -> Outcome("Panic", "none", objs)
           ELSE load_block(lines, j + 1, object, objs)

\* the inner loop (lib.rs:147-162): the lines from j on belong to `object`
load_block(lines, j, object, objs) ==
  IF j > Len(lines)                                   \* lines.next() is None
  THEN load_lines(lines, j, add_object(objs, object))
  ELSE IF lines[j] = TextEnd                          \* break
  THEN load_lines(lines, j + 1, add_object(objs, object))
  ELSE IF Len(lines[j]) < 2                           \* &object_line[2..] out of range
  THEN Outcome("Panic", "none", objs)
  ELSE LET object_line == SubSeq(lines[j], 3, Len(lines[j]))
       IN  IF Contains(object_line, "=")
           THEN LET kv == split_once(object_line, "=")
                    r == TryFrom(kv[2])
                IN  CASE r.tag = "Ok" -> load_block(lines, j + 1, add(object, kv[1], r.value), objs)
                      [] r.tag = "Err" -> Outcome("ValueError", r.err, objs)
                      [] OTHER -> Outcome("Panic", "none", objs)
           ELSE load_block(lines, j + 1, object, objs)

\* the outer loop (lib.rs:144-164): line i is outside every block
load_lines(lines, i, objs) ==
  IF i > Len(lines) THEN Outcome("Ok", "none", objs)
  ELSE IF Contains(lines[i], " ")
       THEN load_block(lines, i + 1, ObjectNew(split_once(lines[i], " ")[2]), objs)
       ELSE load_lines(lines, i + 1, objs)

\* faulty variant: load starts from an empty map
load_clearing(objs, f) ==
  IF f = NoFile THEN Outcome("IO", "none", objs) ELSE load_lines(f, 2, EmptyMap)

\* Database::load on the map objs and the backing file f; the first line is skipped
load(objs, f) ==
  IF f = NoFile THEN Outcome("IO", "none", objs) ELSE load_lines(f, 2, objs)

(***************************************************************************)
(* The operations of a Database as actions.  A panic ends the process.     *)
(***************************************************************************)
Running == last.res # "Panic"

Player == <<"p", "l", "a", "y", "e", "r">>
Hp == <<"h", "p">>
Alive == <<"a", "l", "i", "v", "e">>

\* the objects that the caller builds with Object::new and with_value
ObjSet ==
  { ObjectNew(Player),
    with_value(ObjectNew(Player), Hp, ValueInt(100)),
    with_value(ObjectNew(Player), Alive, ValueBool(TRUE)),
    with_value(with_value(ObjectNew(Player), Hp, ValueInt(100)), Alive, ValueBool(TRUE)) }

\* Database::new(path) on the same path: a fresh, empty map
New ==
  /\ Running
  /\ objects' = EmptyMap
  /\ last' = [op |-> "new", res |-> "Ok"]
  /\ UNCHANGED <<file, saved, val, txt, dec>>

\* database.add_object(object); `old` is what HashMap::insert found under the name
AddObject(object) ==
  /\ Running
  /\ objects' = add_object(objects, object)
  /\ last' = [op |-> "add_object", res |-> "Ok", arg |-> object,
              old |-> get_object(objects, object.name)]
  /\ UNCHANGED <<file, saved, val, txt, dec>>

\* database.remove_object(name)
RemoveObject(name) ==
  /\ Running
  /\ objects' = remove_object(objects, name)
  /\ last' = [op |-> "remove_object", res |-> "Ok", arg |-> name,
              old |-> get_object(objects, name)]
  /\ UNCHANGED <<file, saved, val, txt, dec>>

\* database.save(): the file is created (truncated) and written in one piece, in
\* one of the orders the two HashMaps may iterate in
Save ==
  /\ Running
  /\ \E lines \in Renderings(objects) : file' = lines
  /\ saved' = <<objects>>
  /\ last' = [op |-> "save", res |-> "Ok"]
  /\ UNCHANGED <<objects, val, txt, dec>>

\* database.load()
Load ==
  /\ Running
  /\ LET out == load(objects, file)
     IN  /\ objects' = out.objects
         /\ last' = [op |-> "load", res |-> out.res, err |-> out.err, pre |-> objects]
  /\ UNCHANGED <<file, saved, val, txt, dec>>

Next ==
  \/ New
  \/ \E object \in ObjSet : AddObject(object)
  \/ RemoveObject(Player)
  \/ Save
  \/ Load

(***************************************************************************)
(* Spec: a process that starts without a backing file.                     *)
(***************************************************************************)
Init == DbIdle /\ CodecIdle

Spec == Init /\ [][Next]_vars

(***************************************************************************)
(* SpecLoad: a process that finds a backing file written by someone else:  *)
(* the header line followed by at most MaxLines lines of FileLines.  The   *)
(* lines are an object start, `end`, two fields that decode, one that the  *)
(* decoder rejects (InvalidType), one on which the decoder's assertion     *)
(* fails, one without '=' and an empty one.                                *)
(***************************************************************************)
FileLines ==
  { <<"o", "b", "j", "e", "c", "t", " ">> \o Player,
    TextEnd,
    <<" ", " ">> \o Hp \o <<"=", "i", ":", "1", "0", "0">>,
    <<" ", " ">> \o Alive \o <<"=", "b", ":", "t", "r", "u", "e">>,
    <<" ", " ">> \o Hp \o <<"=", "x", ":", "5">>,
    <<" ", " ">> \o Hp \o <<"=", "i", "1", "0", "0">>,
    <<" ", " ", "n", "o", "t", "e">>,
    <<>> }

RECURSIVE FilesUpTo(_)
FilesUpTo(n) ==
  IF n = 0 THEN {<<<<"s", "o", "s", "d", "b">>>>}
  ELSE LET shorter == FilesUpTo(n - 1)
       IN  shorter \cup {Append(f, l) : f \in shorter, l \in FileLines}

\* an empty file and the files of one arbitrary line are among them
Files == FilesUpTo(MaxLines) \cup {<<>>} \cup {<<l>> : l \in FileLines}

InitLoad ==
  /\ CodecIdle
  /\ objects = EmptyMap
  /\ file \in Files
  /\ last = NoOp
  /\ saved = NoMap

NextLoad ==
  \/ \E object \in {o \in ObjSet : Cardinality(DOMAIN o.values) = 1} : AddObject(object)
  \/ Load

SpecLoad == InitLoad /\ [][NextLoad]_vars

(***************************************************************************)
(* Claims about the codec, checked under SpecCodec.                        *)
(***************************************************************************)
Decoded == dec.tag # "Pending"
RoundTripped == val # NoValue /\ Decoded
TextTrue == <<"t", "r", "u", "e">>
TextFalse == <<"f", "a", "l", "s", "e">>

\* C2 as stated: every Integer, Float or Boolean value decodes from its own
\* encoding to Ok of an equal value.
C2_RoundTripAllScalars ==
  (RoundTripped /\ val.kind \in {"Int", "Float", "Bool"})
    => (dec.tag = "Ok" /\ ValueEq(dec.value, val))

\* C2 amended: every Integer and Boolean value, and every Float value other than
\* NaN, decodes from its own encoding to Ok of an equal value.
C2_RoundTripExceptNaN ==
  (RoundTripped /\ val.kind \in {"Int", "Float", "Bool"}
     /\ ~(val.kind = "Float" /\ val.f.cls = "nan"))
    => (dec.tag = "Ok" /\ ValueEq(dec.value, val))

C2_Witness ==
  /\ RoundTripped
  /\ val.kind = "Float" /\ val.f.cls = "fin" /\ val.f.neg
  /\ val.f.e = 2 /\ val.f.m < 10
  /\ dec.tag = "Ok" /\ ValueEq(dec.value, val)

\* the payload is an optional sign and one or more digits whose number, leading
\* zeros aside, is at most 2147483647 (2147483648 after a '-')
RECURSIVE StripZeros(_)
StripZeros(s) == IF Len(s) > 1 /\ s[1] = "0" THEN StripZeros(Tail(s)) ELSE s

RECURSIVE LexLeq(_, _)
LexLeq(a, b) ==
  \/ a = <<>>
  \/ DigitVal(a[1]) < DigitVal(b[1])
  \/ a[1] = b[1] /\ LexLeq(Tail(a), Tail(b))

SignOf(p) == IF p # <<>> /\ p[1] \in {"+", "-"} THEN p[1] ELSE ""
Unsigned(p) == IF SignOf(p) = "" THEN p ELSE Tail(p)

IsDecimalI32(p) ==
  LET sig == StripZeros(Unsigned(p))
      limit == IF SignOf(p) = "-" THEN NatToText(I32Max \div 10) \o <<"8">> ELSE NatToText(I32Max)
  IN  /\ sig # <<>>
      /\ AllDigits(sig)
      /\ Len(sig) < Len(limit) \/ (Len(sig) = Len(limit) /\ LexLeq(sig, limit))

\* the number that a payload accepted by IsDecimalI32 denotes
DecimalI32(p) ==
  LET sig == StripZeros(Unsigned(p))
      high == DigitsToNat(SubSeq(sig, 1, Len(sig) - 1))
      low == DigitVal(sig[Len(sig)])
  IN  IF SignOf(p) = "-" THEN (-10) * high - low ELSE 10 * high + low

\* C3: the decode table: the empty text is ValueIsEmpty; behind a ':' separator
\* tag s gives the payload verbatim, tag i gives Int exactly for the decimal i32
\* payloads and InvalidValue otherwise, tag b gives Bool exactly for "true" and
\* "false" and InvalidValue otherwise, and a tag other than s, i, f, b gives
\* InvalidType whatever the payload.
C3_DecodeTable ==
  Decoded =>
    /\ txt = <<>> => dec = Err("ValueIsEmpty")
    /\ (Len(txt) >= 2 /\ txt[2] = ":") =>
         LET tag == txt[1]
             payload == SubSeq(txt, 3, Len(txt))
         IN  /\ tag = "s" => dec = Ok(ValueStr(payload))
             /\ tag = "i" =>
                  IF IsDecimalI32(payload)
                  THEN dec = Ok(ValueInt(DecimalI32(payload)))
                  ELSE dec = Err("InvalidValue")
             /\ tag = "b" =>
                  IF payload \in {TextTrue, TextFalse}
                  THEN dec = Ok(ValueBool(payload = TextTrue))
                  ELSE dec = Err("InvalidValue")
             /\ tag \notin {"s", "i", "f", "b"} => dec = Err("InvalidType")

C3_Witness ==
  /\ Decoded
  /\ txt = <<"i", ":">> \o I32ToText(I32Min)
  /\ dec = Ok(ValueInt(I32Min))

\* C4 as stated: decode aborts exactly on the non-empty texts whose second
\* character is not ':' or is missing.
C4_AbortsWithoutSeparator ==
  Decoded => (dec = Panic <=> (txt # <<>> /\ (Len(txt) = 1 \/ txt[2] # ":")))

\* C4 amended: decode aborts exactly on the texts of two or more characters whose
\* second character is not ':'; a text of exactly one character returns the
\* typed error InvalidValue; every other text returns Ok or a typed error.
C4_AbortsOnWrongSeparator ==
  Decoded =>
    /\ dec = Panic <=> (Len(txt) >= 2 /\ txt[2] # ":")
    /\ Len(txt) = 1 => dec = Err("InvalidValue")
    /\ dec.tag \in {"Ok", "Err", "Panic"}

C4_Witness ==
  /\ Decoded
  /\ Len(txt) > 2 /\ txt[1] = "i" /\ txt[2] = "=" /\ AllDigits(SubSeq(txt, 3, Len(txt)))
  /\ dec = Panic

\* C9: a String value without a newline encodes to "s:" followed by its payload
\* unescaped, and that text decodes to Ok of an equal value.
C9_StringRoundTrip ==
  (val.kind = "Str" /\ ~Contains(val.s, "\n") /\ txt # NoText) =>
    /\ txt = <<"s", ":">> \o val.s
    /\ Decoded => (dec.tag = "Ok" /\ ValueEq(dec.value, val))

C9_Witness ==
  /\ RoundTripped
  /\ val.kind = "Str" /\ val.s = <<" ", ":", "=">>
  /\ dec = Ok(val)

(***************************************************************************)
(* The layout of a file, stated line by line: Owner(f, i) is the index of  *)
(* the line whose object block line i lies in, 0 when line i is outside    *)
(* every block.                                                            *)
(***************************************************************************)
RECURSIVE Owner(_, _)
Owner(f, i) ==
  IF i <= 2 THEN 0
  ELSE LET o == Owner(f, i - 1)
       IN  IF o = 0 THEN (IF Contains(f[i - 1], " ") THEN i - 1 ELSE 0)
           ELSE IF f[i - 1] = TextEnd THEN 0 ELSE o

IsStart(f, k) == k \in 2..Len(f) /\ Owner(f, k) = 0 /\ Contains(f[k], " ")
Starts(f) == {k \in 2..Len(f) : IsStart(f, k)}
NameAt(f, k) == SubSeq(f[k], IndexOf(f[k], " ") + 1, Len(f[k]))
IsFieldLine(f, j) == j \in 2..Len(f) /\ Owner(f, j) # 0 /\ f[j] # TextEnd

\* the index of the `end` line closing the block started at k, Len(f) + 1 if none
BlockEnd(f, k) ==
  IF \E j \in (k + 1)..Len(f) : f[j] = TextEnd
  THEN CHOOSE j \in (k + 1)..Len(f) :
         f[j] = TextEnd /\ \A h \in (k + 1)..(j - 1) : f[h] # TextEnd
  ELSE Len(f) + 1

Stripped(line) == SubSeq(line, 3, Len(line))
KeyOf(line) == SubSeq(Stripped(line), 1, IndexOf(Stripped(line), "=") - 1)
EncodedOf(line) == SubSeq(Stripped(line), IndexOf(Stripped(line), "=") + 1, Len(Stripped(line)))

\* what a field line does: "short" and "Panic" abort the process, "Err" is a decode
\* error, "skip" records nothing, "Ok" records a field
LineKind(line) ==
  IF Len(line) < 2 THEN "short"
  ELSE IF ~Contains(Stripped(line), "=") THEN "skip"
  ELSE TryFrom(EncodedOf(line)).tag

\* the fields that the lines of the block started at k record: for every key the
\* value of the last line that sets it
FieldsOf(f, k) ==
  LET body == {j \in (k + 1)..(BlockEnd(f, k) - 1) : LineKind(f[j]) = "Ok"}
      keys == {KeyOf(f[j]) : j \in body}
      lastOf(key) == CHOOSE j \in body :
                       KeyOf(f[j]) = key /\ \A h \in body : KeyOf(f[h]) = key => h <= j
  IN  [key \in keys |-> TryFrom(EncodedOf(f[lastOf(key)])).value]

ParsedObject(f, k) == [name |-> NameAt(f, k), values |-> FieldsOf(f, k)]

\* the map `before` with the objects of the blocks ks put over it, a later block
\* replacing an earlier one of the same name
Override(before, f, ks) ==
  LET names == {NameAt(f, k) : k \in ks}
      lastOf(n) == CHOOSE k \in ks : NameAt(f, k) = n /\ \A h \in ks : NameAt(f, h) = n => h <= k
  IN  [n \in DOMAIN before \cup names |->
         IF n \in names THEN ParsedObject(f, lastOf(n)) ELSE before[n]]

BadLines(f) == {j \in 2..Len(f) : IsFieldLine(f, j) /\ LineKind(f[j]) \in {"short", "Err", "Panic"}}
FirstBad(f) == CHOOSE j \in BadLines(f) : \A h \in BadLines(f) : j <= h

Loaded == last.op = "load" /\ file # NoFile

(***************************************************************************)
(* Claims about load and add_object, checked under SpecLoad.               *)
(***************************************************************************)
\* C5: when the first failing line of the file fails with a decode error, load
\* returns ValueError wrapping that error, the map is the map before load
\* overridden by exactly the objects of the blocks closed before that line, and
\* the lines after it have no effect.
C5_AbortWithPartialCommit ==
  (Loaded /\ BadLines(file) # {} /\ LineKind(file[FirstBad(file)]) = "Err") =>
    LET j == FirstBad(file)
        done == {k \in Starts(file) : BlockEnd(file, k) < j}
    IN  /\ last.res = "ValueError"
        /\ last.err = TryFrom(EncodedOf(file[j])).err
        /\ objects = Override(last.pre, file, done)
        /\ NameAt(file, Owner(file, j)) \in DOMAIN objects =>
             \/ NameAt(file, Owner(file, j)) \in {NameAt(file, k) : k \in done}
             \/ NameAt(file, Owner(file, j)) \in DOMAIN last.pre
        /\ load(last.pre, SubSeq(file, 1, j)) = load(last.pre, file)

C5_Witness ==
  /\ Loaded
  /\ last.res = "ValueError" /\ last.err = "InvalidType"
  /\ last.pre # EmptyMap
  /\ objects # last.pre
  /\ NameAt(file, Owner(file, FirstBad(file))) \notin DOMAIN objects

\* C6 as stated: a line inside a block that is not `end` and has no '=' is
\* skipped whatever its length: load ends as it does on the file without the line.
C6_LineWithoutEqualsSkipped ==
  Loaded =>
    \A j \in 2..Len(file) :
      (IsFieldLine(file, j) /\ ~Contains(file[j], "=")) =>
        LET without == SubSeq(file, 1, j - 1) \o SubSeq(file, j + 1, Len(file))
        IN  /\ load(last.pre, without) = load(last.pre, file)
            /\ last.res = "Panic" => j # FirstBad(file)

\* C7: a load that returns Ok leaves every object whose name no block carries as
\* it was, maps every block name to the object parsed from the last block of that
\* name, and a second load of the unchanged file changes nothing.
C7_LoadAdditiveIdempotent ==
  (Loaded /\ last.res = "Ok") =>
    /\ objects = Override(last.pre, file, Starts(file))
    /\ \A n \in DOMAIN last.pre :
         n \notin {NameAt(file, k) : k \in Starts(file)} => get_object(objects, n) = last.pre[n]
    /\ load(objects, file) = Outcome("Ok", "none", objects)

C7_Witness ==
  /\ Loaded /\ last.res = "Ok"
  /\ Player \in DOMAIN last.pre
  /\ \E n \in DOMAIN objects : n \notin DOMAIN last.pre
  /\ objects[Player] = last.pre[Player]

\* C8: an insertion replaces the object of the same name wholesale: after
\* add_object(o) the map holds exactly o under o.name, and after a load that
\* returns Ok every block name holds exactly the fields of the last block of that
\* name, whatever the map or an earlier block held under it.
C8_OverwriteNotMerge ==
  /\ last.op = "add_object" => get_object(objects, last.arg.name) = last.arg
  /\ (Loaded /\ last.res = "Ok") =>
       \A k \in Starts(file) :
         (\A h \in Starts(file) : NameAt(file, h) = NameAt(file, k) => h <= k) =>
           /\ get_object(objects, NameAt(file, k)).name = NameAt(file, k)
           /\ get_object(objects, NameAt(file, k)).values = FieldsOf(file, k)

C8_Witness ==
  /\ last.op = "add_object"
  /\ last.old # NoObject
  /\ Alive \in DOMAIN last.old.values
  /\ DOMAIN last.arg.values = {Hp}
  /\ DOMAIN objects[last.arg.name].values = {Hp}

\* C10: a block runs from its start line to the first `end` after it, or to the
\* end of the file: when no line of the file fails load returns Ok, and after a
\* load that returns Ok the object of a block that no later block of the same name
\* replaces is in the map under the text after the first space of its start line,
\* with the fields of all the lines up to that `end` or the end of the file, a line
\* with a space among them starting no object.
C10_BlockRunsToEndOrEof ==
  Loaded =>
    /\ BadLines(file) = {} => last.res = "Ok"
    /\ last.res = "Ok" =>
         \A k \in Starts(file) :
           (\A h \in Starts(file) : h > k => NameAt(file, h) # NameAt(file, k)) =>
             LET name == NameAt(file, k)
                 stop == BlockEnd(file, k)
                 sets(j, key) == LineKind(file[j]) = "Ok" /\ KeyOf(file[j]) = key
             IN  /\ name \in DOMAIN objects
                 /\ objects[name].name = name
                 /\ \A j \in (k + 1)..(stop - 1) :
                      LineKind(file[j]) = "Ok" =>
                        /\ KeyOf(file[j]) \in DOMAIN objects[name].values
                        /\ \/ \E h \in (j + 1)..(stop - 1) : sets(h, KeyOf(file[j]))
                           \/ objects[name].values[KeyOf(file[j])]
                                = TryFrom(EncodedOf(file[j])).value
                 /\ \A key \in DOMAIN objects[name].values :
                      \E j \in (k + 1)..(stop - 1) : sets(j, key)

C10_Witness ==
  /\ Loaded /\ last.res = "Ok"
  /\ Len(file) = 5
  /\ \A j \in 2..Len(file) : file[j] # TextEnd
  /\ Contains(file[2], " ") /\ NameAt(file, 2) = Player
  /\ file[4] = file[2]
  /\ DOMAIN objects = {Player}
  /\ DOMAIN objects[Player].values = {Hp, Alive}

(***************************************************************************)
(* Claim about save followed by load, checked under Spec.                  *)
(***************************************************************************)
\* C1: after save() and load() on a fresh Database on the same path, load returns
\* Ok and every saved object is back with every saved field equal to its saved
\* value.
C1_SaveLoadRoundTrip ==
  (last.op = "load" /\ saved # NoMap /\ last.pre = EmptyMap) =>
    /\ last.res = "Ok"
    /\ \A n \in DOMAIN saved[1] :
         /\ n \in DOMAIN objects
         /\ \A field \in DOMAIN saved[1][n].values :
              ValueEq(get(objects[n], field), saved[1][n].values[field])

====
